---- MODULE Spec2Model ----
(***************************************************************************)
(* Model of github-comments-fetcher.go: one process, run repeatedly in the *)
(* same working directory.  The two files of the working directory         *)
(* (github-comments-fetcher-inputs.txt and comments.txt) survive between   *)
(* runs; everything else is a local of main and is reset by each run.      *)
(*                                                                         *)
(* Environment faults are inputs of the step that meets them: a file that  *)
(* cannot be read, opened or created, a request that fails in transport, a *)
(* body that cannot be read or parsed.  A failed file operation leaves the *)
(* file as it was (the file is unreadable, unwritable or uncreatable); a   *)
(* write torn half-way by the operating system is outside the fault model. *)
(***************************************************************************)
EXTENDS Integers, Sequences, FiniteSets, TLC

\* ---------------------------------------------------------------- bounds
MaxRuns == 3
MaxComments == 2

\* ------------------------------------------------------- program constant
HTTPStatusOK == 200

\* ----------------------------------------------------------- input sets
\* Values of the -O/--owner, -R/--repo and -I/--issueNumber flags; "" is the
\* default of an unsupplied flag.
OwnerFlags == {"", "A", "X"}
RepoFlags == {"", "B"}
IssueNumberFlags == {"", "1", "2"}
\* Values of GITHUB_ACCESS_TOKEN; "" is what os.Getenv returns when unset.
Tokens == {"", "tok"}
\* Status codes the server may answer with.
Statuses == {200, 404}

\* A time.Time value is the text Format("2006-01-02 15:04:05") prints of it and
\* the sub-second part that layout drops.
Format(t) == t.stamp

\* Decoded Issue values (struct Issue).
Issues ==
  { [title |-> "T", body |-> "B", login |-> "u",
     created |-> [stamp |-> "2024-01-01 10:00:00", nsec |-> 500],
     updated |-> [stamp |-> "2024-01-02 11:30:15", nsec |-> 0]] }

\* Decoded Comment values (struct Comment).
Comments ==
  { [body |-> "c1", login |-> "v",
     created |-> [stamp |-> "2024-01-01 10:00:00", nsec |-> 500]],
    [body |-> "c2", login |-> "w",
     created |-> [stamp |-> "2024-01-02 11:30:15", nsec |-> 0]] }

RECURSIVE SeqsUpTo(_, _)
SeqsUpTo(S, n) ==
  IF n = 0 THEN {<<>>}
  ELSE LET shorter == SeqsUpTo(S, n - 1)
       IN  shorter \cup {Append(s, x) : s \in {t \in shorter : Len(t) = n - 1}, x \in S}

CommentLists == SeqsUpTo(Comments, MaxComments)

\* ------------------------------------------------------------ the state
VARIABLES
  pc,                  \* position of the run in main
  run,                 \* number of runs started
  fatalAt,             \* the step at which the run aborted ("" if it did not)
  ownerFlag, repoFlag, issueNumberFlag,
  envToken,            \* GITHUB_ACCESS_TOKEN in the environment of the run
  cache,               \* github-comments-fetcher-inputs.txt
  out,                 \* comments.txt
  currentOwner, currentRepo, currentIssueNumber,
  accessToken,
  requests,            \* the requests client.Do has sent in this run, in order
  issueResp,           \* what the issue GET returned
  commentsResp,        \* what the comments GET returned
  issue,               \* var issue Issue
  comments,            \* var comments []Comment
  i,                   \* number of comments the write loop has finished
  branch,              \* which branch of the os.Stat test the run took
  cache0,              \* the cache file when the run started
  out0                 \* the output file when the run started

vars ==
  << pc, run, fatalAt, ownerFlag, repoFlag, issueNumberFlag, envToken, cache, out,
     currentOwner, currentRepo, currentIssueNumber, accessToken, requests,
     issueResp, commentsResp, issue, comments, i, branch, cache0, out0 >>

\* The inputs file: absent, or a JSON object with the three keys.
NoCache == [exists |-> FALSE, owner |-> "", repo |-> "", issueNumber |-> ""]

\* The anonymous struct both branches marshal into the inputs file.
NewInputs_NoIssueNumber(owner, repo, issueNumber) ==
  [exists |-> TRUE, owner |-> owner, repo |-> repo, issueNumber |-> ""]

NewInputs(owner, repo, issueNumber) ==
  [exists |-> TRUE, owner |-> owner, repo |-> repo, issueNumber |-> issueNumber]

\* The output file: absent, or a sequence of written lines.
NoOutput == [exists |-> FALSE, content |-> <<>>]

NoResponse == [got |-> FALSE, err |-> FALSE, status |-> 0, readable |-> FALSE, valid |-> FALSE]

ZeroTime == [stamp |-> "0001-01-01 00:00:00", nsec |-> 0]
ZeroIssue == [title |-> "", body |-> "", login |-> "", created |-> ZeroTime, updated |-> ZeroTime]

Init ==
  /\ pc = "start"
  /\ run = 0
  /\ fatalAt = ""
  /\ ownerFlag = "" /\ repoFlag = "" /\ issueNumberFlag = ""
  /\ envToken = ""
  /\ cache = NoCache
  /\ out = NoOutput
  /\ currentOwner = "" /\ currentRepo = "" /\ currentIssueNumber = ""
  /\ accessToken = ""
  /\ requests = <<>>
  /\ issueResp = NoResponse
  /\ commentsResp = NoResponse
  /\ issue = ZeroIssue
  /\ comments = <<>>
  /\ i = 0
  /\ branch = ""
  /\ cache0 = NoCache
  /\ out0 = NoOutput

\* A fatal exit (panic or log.Fatalf) at the named step.
Fatal(step) ==
  /\ pc' = "fatal"
  /\ fatalAt' = step

\* ------------------------------------------------------------ main, 58-75
\* A new process: flag.Parse reads the flags, getAbsolutePath resolves the
\* inputs file, and the locals of main are declared with their zero values.
StartRun ==
  /\ pc = "start"
  /\ run < MaxRuns
  /\ run' = run + 1
  /\ \E o \in OwnerFlags, r \in RepoFlags, n \in IssueNumberFlags, t \in Tokens :
       /\ ownerFlag' = o /\ repoFlag' = r /\ issueNumberFlag' = n
       /\ envToken' = t
  /\ cache0' = cache
  /\ out0' = out
  /\ \E getwdOK \in BOOLEAN :
       IF getwdOK THEN pc' = "stat" /\ UNCHANGED fatalAt
       ELSE Fatal("getwd")
  /\ UNCHANGED << cache, out, currentOwner, currentRepo, currentIssueNumber, accessToken,
                  requests, issueResp, commentsResp, issue, comments, i, branch >>

\* The process is gone (main returned, panicked or called log.Fatalf): nothing
\* of it remains but the two files.
ExitProcess ==
  /\ pc \in {"done", "fatal"}
  /\ pc' = "start"
  /\ fatalAt' = ""
  /\ ownerFlag' = "" /\ repoFlag' = "" /\ issueNumberFlag' = ""
  /\ envToken' = ""
  /\ currentOwner' = "" /\ currentRepo' = "" /\ currentIssueNumber' = ""
  /\ accessToken' = ""
  /\ requests' = <<>>
  /\ issueResp' = NoResponse
  /\ commentsResp' = NoResponse
  /\ issue' = ZeroIssue
  /\ comments' = <<>>
  /\ i' = 0
  /\ branch' = ""
  /\ cache0' = cache
  /\ out0' = out
  /\ UNCHANGED <<run, cache, out>>

\* ------------------------------------------------------------ main, 77-98
\* if currentOwner == "" || currentRepo == "" { panic }
CacheInvalid_OwnerOnly(owner, repo) == owner = ""

CacheInvalid_Both(owner, repo) == owner = "" /\ repo = ""

CacheInvalid(owner, repo) == owner = "" \/ repo = ""

\* if xFlag != "" { currentX = xFlag }
MergeFlag_Always(flagValue, cached) == flagValue

MergeFlag(flagValue, cached) == IF flagValue # "" THEN flagValue ELSE cached

\* The inputs file exists: read it, validate it, merge the flags, write it back.
ResolveFromCache ==
  /\ pc = "stat"
  /\ cache.exists
  /\ branch' = "exists"
  /\ \E readOK \in BOOLEAN, writeOK \in BOOLEAN :
       IF ~readOK
       THEN /\ Fatal("readInputs")
            /\ UNCHANGED <<currentOwner, currentRepo, currentIssueNumber, cache>>
       ELSE IF CacheInvalid(cache.owner, cache.repo)
       THEN /\ Fatal("emptyOwnerRepo")
            /\ currentOwner' = cache.owner
            /\ currentRepo' = cache.repo
            /\ currentIssueNumber' = cache.issueNumber
            /\ UNCHANGED cache
       ELSE /\ currentOwner' = MergeFlag(ownerFlag, cache.owner)
            /\ currentRepo' = MergeFlag(repoFlag, cache.repo)
            /\ currentIssueNumber' = MergeFlag(issueNumberFlag, cache.issueNumber)
            /\ IF writeOK
               THEN /\ cache' = NewInputs(currentOwner', currentRepo', currentIssueNumber')
                    /\ pc' = "token"
                    /\ UNCHANGED fatalAt
               ELSE /\ Fatal("updateInputs")
                    /\ UNCHANGED cache
  /\ UNCHANGED << run, ownerFlag, repoFlag, issueNumberFlag, envToken, out, accessToken,
                  requests, issueResp, commentsResp, issue, comments, i, cache0, out0 >>

\* ----------------------------------------------------------- main, 99-124
\* The inputs file does not exist: create it from the flags.  The branch
\* assigns nothing to currentOwner, currentRepo and currentIssueNumber.
CreateCache ==
  /\ pc = "stat"
  /\ ~cache.exists
  /\ branch' = "absent"
  /\ \E writeOK \in BOOLEAN :
       IF writeOK
       THEN /\ cache' = NewInputs(ownerFlag, repoFlag, issueNumberFlag)
            /\ pc' = "token"
            /\ UNCHANGED fatalAt
       ELSE /\ Fatal("writeInputs")
            /\ UNCHANGED cache
  /\ UNCHANGED << run, ownerFlag, repoFlag, issueNumberFlag, envToken, out,
                  currentOwner, currentRepo, currentIssueNumber, accessToken,
                  requests, issueResp, commentsResp, issue, comments, i, cache0, out0 >>

\* ---------------------------------------------------------- main, 126-130
TokenMissing_Never(token) == FALSE

TokenMissing(token) == token = ""

CheckToken ==
  /\ pc = "token"
  /\ accessToken' = envToken
  /\ IF TokenMissing(accessToken')
     THEN Fatal("token")
     ELSE pc' = "issueRequest" /\ UNCHANGED fatalAt
  /\ UNCHANGED << run, ownerFlag, repoFlag, issueNumberFlag, envToken, cache, out,
                  currentOwner, currentRepo, currentIssueNumber,
                  requests, issueResp, commentsResp, issue, comments, i, branch, cache0, out0 >>

\* ---------------------------------------------------------- main, 132-158
\* owner := currentOwner ...; the request path is built from them.
Request(endpoint) ==
  [endpoint |-> endpoint, owner |-> currentOwner, repo |-> currentRepo,
   issueNumber |-> currentIssueNumber, token |-> accessToken]

\* What client.Do may return: a transport error, or a response with a status,
\* a body that io.ReadAll can or cannot read and that is or is not the JSON
\* json.Unmarshal expects.
Responses ==
  {[got |-> TRUE, err |-> TRUE, status |-> 0, readable |-> FALSE, valid |-> FALSE]}
  \cup [got : {TRUE}, err : {FALSE}, status : Statuses, readable : {FALSE}, valid : {FALSE}]
  \cup [got : {TRUE}, err : {FALSE}, status : Statuses, readable : {TRUE}, valid : BOOLEAN]

SendIssueRequest ==
  /\ pc = "issueRequest"
  /\ requests' = Append(requests, Request("issue"))
  /\ \E r \in Responses :
       /\ issueResp' = r
       /\ IF r.err THEN Fatal("sendIssue")
          ELSE pc' = "issueResponse" /\ UNCHANGED fatalAt
  /\ UNCHANGED << run, ownerFlag, repoFlag, issueNumberFlag, envToken, cache, out,
                  currentOwner, currentRepo, currentIssueNumber, accessToken,
                  commentsResp, issue, comments, i, branch, cache0, out0 >>

\* ---------------------------------------------------------- main, 161-177
\* if resp.StatusCode != http.StatusOK { log.Fatalf }
StatusOK_Any(status) == TRUE

StatusOK(status) == status = HTTPStatusOK

\* err = json.Unmarshal(body, &v); err == nil
Unmarshals_Always(resp) == TRUE

Unmarshals(resp) == resp.valid

ReadIssueResponse ==
  /\ pc = "issueResponse"
  /\ IF ~issueResp.readable THEN Fatal("readIssueBody") /\ UNCHANGED issue
     ELSE IF ~StatusOK(issueResp.status) THEN Fatal("issueStatus") /\ UNCHANGED issue
     ELSE IF ~Unmarshals(issueResp) THEN Fatal("parseIssue") /\ UNCHANGED issue
     ELSE /\ \E v \in Issues : issue' = v
          /\ pc' = "createOutput"
          /\ UNCHANGED fatalAt
  /\ UNCHANGED << run, ownerFlag, repoFlag, issueNumberFlag, envToken, cache, out,
                  currentOwner, currentRepo, currentIssueNumber, accessToken, requests,
                  issueResp, commentsResp, comments, i, branch, cache0, out0 >>

\* ---------------------------------------------------------- main, 179-184
\* os.Create("comments.txt"): creates the file or truncates the one there.
CreateOutput ==
  /\ pc = "createOutput"
  /\ \E createOK \in BOOLEAN :
       IF createOK
       THEN /\ out' = [exists |-> TRUE, content |-> <<>>]
            /\ pc' = "writeIssue"
            /\ UNCHANGED fatalAt
       ELSE /\ Fatal("createOutput")
            /\ UNCHANGED out
  /\ UNCHANGED << run, ownerFlag, repoFlag, issueNumberFlag, envToken, cache,
                  currentOwner, currentRepo, currentIssueNumber, accessToken, requests,
                  issueResp, commentsResp, issue, comments, i, branch, cache0, out0 >>

\* ---------------------------------------------------------- main, 186-192
\* One line of the output file.
Line(kind, idx, login, text) ==
  [kind |-> kind, idx |-> idx, login |-> login, text |-> text]

BlankLine == Line("", 0, "", "")

\* "Issue Title: %s\nIssue Body: %s\nIssue Author: %s\nCreated At: %s\nUpdated At: %s\n\n"
IssueLine(v) ==
  << Line("Issue Title", 0, "", v.title),
     Line("Issue Body", 0, "", v.body),
     Line("Issue Author", 0, v.login, ""),
     Line("Created At", 0, "", Format(v.created)),
     Line("Updated At", 0, "", Format(v.updated)),
     BlankLine >>

WriteIssue ==
  /\ pc = "writeIssue"
  /\ \E writeOK \in BOOLEAN :
       IF writeOK
       THEN /\ out' = [out EXCEPT !.content = @ \o IssueLine(issue)]
            /\ pc' = "commentsRequest"
            /\ UNCHANGED fatalAt
       ELSE /\ Fatal("writeIssue")
            /\ UNCHANGED out
  /\ UNCHANGED << run, ownerFlag, repoFlag, issueNumberFlag, envToken, cache,
                  currentOwner, currentRepo, currentIssueNumber, accessToken, requests,
                  issueResp, commentsResp, issue, comments, i, branch, cache0, out0 >>

\* ---------------------------------------------------------- main, 194-210
SendCommentsRequest ==
  /\ pc = "commentsRequest"
  /\ requests' = Append(requests, Request("comments"))
  /\ \E r \in Responses :
       /\ commentsResp' = r
       /\ IF r.err THEN Fatal("sendComments")
          ELSE pc' = "commentsResponse" /\ UNCHANGED fatalAt
  /\ UNCHANGED << run, ownerFlag, repoFlag, issueNumberFlag, envToken, cache, out,
                  currentOwner, currentRepo, currentIssueNumber, accessToken,
                  issueResp, issue, comments, i, branch, cache0, out0 >>

\* ---------------------------------------------------------- main, 212-225
ReadCommentsResponse ==
  /\ pc = "commentsResponse"
  /\ IF ~commentsResp.readable THEN Fatal("readCommentsBody") /\ UNCHANGED comments
     ELSE IF ~StatusOK(commentsResp.status) THEN Fatal("commentsStatus") /\ UNCHANGED comments
     ELSE IF ~Unmarshals(commentsResp) THEN Fatal("parseComments") /\ UNCHANGED comments
     ELSE /\ \E v \in CommentLists : comments' = v
          /\ pc' = "writeComments"
          /\ UNCHANGED fatalAt
  /\ UNCHANGED << run, ownerFlag, repoFlag, issueNumberFlag, envToken, cache, out,
                  currentOwner, currentRepo, currentIssueNumber, accessToken, requests,
                  issueResp, commentsResp, issue, i, branch, cache0, out0 >>

\* ---------------------------------------------------------- main, 227-248
\* if i > 0 { file.WriteString("\n") }, with i the 0-based index of the range.
NeedSeparator_Always(index) == TRUE

NeedSeparator(index) == index > 0

\* "Comment %d by %s at %s" and ":\n", with i+1 as the number.
CommentHeader(index, c) == Line("Comment", index + 1, c.login, Format(c.created))

\* "%s\n"
CommentBody(c) == Line("Body", 0, "", c.body)

\* The writes of one iteration of the loop, in order.
CommentWrites(index, c) ==
  (IF NeedSeparator(index) THEN <<BlankLine>> ELSE <<>>)
    \o <<CommentHeader(index, c), CommentBody(c)>>

\* One iteration of the loop: its writes are done in order until one fails.
WriteComment ==
  /\ pc = "writeComments"
  /\ i < Len(comments)
  /\ LET writes == CommentWrites(i, comments[i + 1])
     IN  \E done \in 0..Len(writes) :
           /\ out' = [out EXCEPT !.content = @ \o SubSeq(writes, 1, done)]
           /\ IF done = Len(writes)
              THEN i' = i + 1 /\ UNCHANGED <<pc, fatalAt>>
              ELSE Fatal("writeComment") /\ UNCHANGED i
  /\ UNCHANGED << run, ownerFlag, repoFlag, issueNumberFlag, envToken, cache,
                  currentOwner, currentRepo, currentIssueNumber, accessToken, requests,
                  issueResp, commentsResp, issue, comments, branch, cache0, out0 >>

\* ---------------------------------------------------------- main, 248-251
\* The range is exhausted: main prints its message and returns.
Finish ==
  /\ pc = "writeComments"
  /\ i = Len(comments)
  /\ pc' = "done"
  /\ UNCHANGED << run, fatalAt, ownerFlag, repoFlag, issueNumberFlag, envToken, cache, out,
                  currentOwner, currentRepo, currentIssueNumber, accessToken, requests,
                  issueResp, commentsResp, issue, comments, i, branch, cache0, out0 >>

Next ==
  \/ StartRun
  \/ ExitProcess
  \/ ResolveFromCache
  \/ CreateCache
  \/ CheckToken
  \/ SendIssueRequest
  \/ ReadIssueResponse
  \/ CreateOutput
  \/ WriteIssue
  \/ SendCommentsRequest
  \/ ReadCommentsResponse
  \/ WriteComment
  \/ Finish

Spec == Init /\ [][Next]_vars

\* ================================================================ claims
\* The run got past the Parameter Resolver: the inputs file was written and
\* main went on to the credential check.
ResolverSteps == {"getwd", "readInputs", "emptyOwnerRepo", "updateInputs", "writeInputs"}

PastResolver ==
  /\ pc \notin {"start", "stat"}
  /\ ~(pc = "fatal" /\ fatalAt \in ResolverSteps)

\* An inputs file whose owner or repo is empty, and one where both are set.
BadCache(c) == c.exists /\ (c.owner = "" \/ c.repo = "")

GoodCache(c) == c.exists /\ c.owner # "" /\ c.repo # ""

\* C1: every request a run sends, on either branch of the resolver, is built
\* from a non-empty owner and a non-empty repo.
C1_RequestsHaveOwnerAndRepo ==
  \A k \in DOMAIN requests : requests[k].owner # "" /\ requests[k].repo # ""

\* C2: a run that finds an inputs file with an empty owner or repo ends fatally
\* and sends no request, whatever its flags.
C2_EmptyCacheIsFatal ==
  (pc # "start" /\ BadCache(cache0))
    => /\ pc \in {"stat", "fatal"}
       /\ requests = <<>>

C2_Witness ==
  /\ pc = "fatal"
  /\ fatalAt = "emptyOwnerRepo"
  /\ BadCache(cache0)
  /\ ownerFlag # "" /\ repoFlag # ""
  /\ requests = <<>>

\* C3: a run whose environment holds no credential never gets past the
\* credential check and sends no request.
C3_NoTokenNoRequest ==
  (pc # "start" /\ envToken = "")
    => /\ pc \in {"stat", "token", "fatal"}
       /\ requests = <<>>

C3_Witness ==
  /\ pc = "fatal"
  /\ fatalAt = "token"
  /\ envToken = ""
  /\ requests = <<>>

\* C4: on the branch where the inputs file exists with owner and repo set, once
\* the resolver is done the file holds, field by field, the flag when it was
\* supplied and the cached value otherwise, and the run (its locals and every
\* request it sends) uses those same values.
C4_CacheHoldsMergedValues ==
  (branch = "exists" /\ GoodCache(cache0) /\ PastResolver)
    => /\ cache.exists
       /\ cache.owner = (IF ownerFlag # "" THEN ownerFlag ELSE cache0.owner)
       /\ cache.repo = (IF repoFlag # "" THEN repoFlag ELSE cache0.repo)
       /\ cache.issueNumber =
            (IF issueNumberFlag # "" THEN issueNumberFlag ELSE cache0.issueNumber)
       /\ currentOwner = cache.owner
       /\ currentRepo = cache.repo
       /\ currentIssueNumber = cache.issueNumber
       /\ \A k \in DOMAIN requests :
            /\ requests[k].owner = cache.owner
            /\ requests[k].repo = cache.repo
            /\ requests[k].issueNumber = cache.issueNumber

\* Cache {A, B, 1}, only issueNumber=2 supplied: the file becomes {A, B, 2}.
C4_Witness ==
  /\ pc = "done"
  /\ branch = "exists"
  /\ cache0 = [exists |-> TRUE, owner |-> "A", repo |-> "B", issueNumber |-> "1"]
  /\ ownerFlag = "" /\ repoFlag = "" /\ issueNumberFlag = "2"
  /\ cache = [exists |-> TRUE, owner |-> "A", repo |-> "B", issueNumber |-> "2"]
  /\ Len(requests) = 2
  /\ requests[2].issueNumber = "2"

\* C5: on the branch where no inputs file exists, once the resolver is done the
\* file holds exactly the three flag values, empty ones included, and keeps
\* them however the run ends.
C5_CacheHoldsFlags ==
  (branch = "absent" /\ PastResolver)
    => /\ cache.exists
       /\ cache.owner = ownerFlag
       /\ cache.repo = repoFlag
       /\ cache.issueNumber = issueNumberFlag

C5_Witness ==
  /\ pc = "fatal"
  /\ fatalAt \in {"token", "issueStatus"}
  /\ branch = "absent"
  /\ ownerFlag = "" /\ repoFlag = "B" /\ issueNumberFlag = "1"
  /\ cache = [exists |-> TRUE, owner |-> "", repo |-> "B", issueNumber |-> "1"]

\* C6: once the issue endpoint has answered with a status other than 200, the
\* run can only abort: the output file is what it was when the run started and
\* the issue GET is the only request sent.
C6_IssueNon200LeavesOutputAlone ==
  (issueResp.got /\ ~issueResp.err /\ issueResp.status # 200)
    => /\ pc \in {"issueResponse", "fatal"}
       /\ out = out0
       /\ Len(requests) = 1
       /\ requests[1].endpoint = "issue"

C6_Witness ==
  /\ pc = "fatal"
  /\ fatalAt = "issueStatus"
  /\ issueResp.status = 404
  /\ out0.exists /\ Len(out0.content) > 0
  /\ out = out0

\* C7: a run that ended fatally after opening the output file has not left the
\* issue header block in it (a fatal run never wrote all its comment blocks, so
\* a header block it wrote is a partial transcript).
OutputSteps ==
  {"writeIssue", "sendComments", "readCommentsBody", "commentsStatus", "parseComments",
   "writeComment"}

C7_NoPartialTranscript ==
  (pc = "fatal" /\ fatalAt \in OutputSteps)
    => ~(Len(out.content) >= 6 /\ out.content[1].kind = "Issue Title")

C9_RequestOrder ==
  /\ Len(requests) <= 2
  /\ Len(requests) >= 1 => requests[1].endpoint = "issue"
  /\ Len(requests) = 2 =>
       /\ requests[2].endpoint = "comments"
       /\ issueResp.got /\ ~issueResp.err
       /\ issueResp.status = 200
       /\ issueResp.readable /\ issueResp.valid
       /\ issue \in Issues
  /\ (issueResp.got /\ ~issueResp.err /\ issueResp.status # 200) =>
       /\ Len(requests) = 1
       /\ pc \in {"issueResponse", "fatal"}
  /\ (commentsResp.got /\ ~commentsResp.err /\ commentsResp.status # 200) =>
       /\ Len(requests) = 2
       /\ pc \in {"commentsResponse", "fatal"}

C9_Witness ==
  /\ pc = "fatal"
  /\ fatalAt = "commentsStatus"
  /\ Len(requests) = 2
  /\ issueResp.status = 200
  /\ commentsResp.status = 404

\* C10: an inputs file with an empty owner or repo is never modified again, and
\* a run that finds one aborts at once with no request sent; an inputs file
\* with owner and repo set has them set after every step of every later run.
C10_EmptyCacheAbsorbing ==
  [][ /\ BadCache(cache) => cache' = cache
      /\ (BadCache(cache) /\ pc = "stat") => (pc' = "fatal" /\ requests' = <<>>)
      /\ GoodCache(cache) => GoodCache(cache') ]_vars

\* A first run without the owner or repo flag wrote such a file, and the next
\* run, with both flags supplied, aborted on it and left it as it was.
C10_Witness ==
  /\ run = 2
  /\ pc = "fatal"
  /\ fatalAt = "emptyOwnerRepo"
  /\ BadCache(cache0)
  /\ cache = cache0
  /\ ownerFlag # "" /\ repoFlag # ""
  /\ requests = <<>>
====
